---- MODULE Spec2Model ----
(***************************************************************************)
(* xDAWN spatial filtering (pySPACE/missions/nodes/spatial_filtering/      *)
(* xdawn.py): the batch learner XDAWNNode, the sparse learner              *)
(* SparseXDAWNNode, the adaptive learner AXDAWNNode and the SSNR           *)
(* accumulator, as one state machine over one object whose class is        *)
(* chosen at construction.                                                 *)
(*                                                                         *)
(* Matrices are sequences of rows.  The accumulated matrices X and D hold  *)
(* the integers the samples hold.  Results of floating-point               *)
(* factorisations (QR, SVD, eigh) are kept by shape and provenance only.   *)
(***************************************************************************)
EXTENDS Integers, Sequences, FiniteSets, TLC

\* ------------------------------------------------------------------ bounds
MaxTime == 2
MaxChannels == 2
MaxPattern == 1
MaxRows == 3
MaxRetained == 3
MaxSelected == 2
MaxWeight == 2
MaxTrainItems == 2
MaxSplits == 2
MaxEvals == 5
RhoSteps == 2
RhoOverflow == 3
MaxObjective == 1

\* ------------------------------------------------------------- python None
None == <<>>
NoneInt == -1
Some(v) == <<v>>

\* ------------------------------------------------------------ matrix basics
Rows(M) == Len(M)
Cols(M) == Len(M[1])
Min(a, b) == IF a < b THEN a ELSE b
Max(a, b) == IF a < b THEN b ELSE a

\* the T x n matrix with entry f[r, c] in row r and column c, as a sequence
\* of T rows that are sequences of n entries
Mat(T, n, f) ==
    SubSeq([r \in 1..T |-> SubSeq([c \in 1..n |-> f[r, c]], 1, n)], 1, T)

\* numpy.diag(numpy.ones(T))
Eye(T) == Mat(T, T, [r \in 1..T, c \in 1..T |-> IF r = c THEN 1 ELSE 0])

\* numpy.zeros((T, n))
Zeros(T, n) == Mat(T, n, [r \in 1..T, c \in 1..n |-> 0])

Transpose(M) == Mat(Cols(M), Rows(M),
        [r \in 1..(Cols(M)), c \in 1..(Rows(M)) |-> M[c][r]])

RECURSIVE SumTo(_, _)
SumTo(f, k) == IF k = 0 THEN 0 ELSE f[k] + SumTo(f, k - 1)

\* numpy.dot of two integer matrices whose inner dimensions agree
Dot(A, B) ==
    Mat(Rows(A), Cols(B),
        [r \in 1..(Rows(A)), c \in 1..(Cols(B)) |->
             SumTo([k \in 1..Cols(A) |-> A[r][k] * B[k][c]], Cols(A))])

\* `1 in D`
Contains1(M) == \E r \in 1..Rows(M) : \E c \in 1..Cols(M) : M[r][c] = 1

HasZeroColumn(M) == \E c \in 1..Cols(M) : \A r \in 1..Rows(M) : M[r][c] = 0

Minor(M, i, j) ==
    Mat(Rows(M) - 1, Cols(M) - 1,
        [r \in 1..(Rows(M) - 1), c \in 1..(Cols(M) - 1) |->
             M[IF r < i THEN r ELSE r + 1][IF c < j THEN c ELSE c + 1]])

RECURSIVE Det(_)
Det(M) ==
    IF Rows(M) = 1 THEN M[1][1]
    ELSE SumTo([j \in 1..Cols(M) |->
                   (IF j % 2 = 1 THEN 1 ELSE -1) * M[1][j] * Det(Minor(M, 1, j))],
               Cols(M))

\* the columns of M are linearly dependent (Gram determinant zero)
RankDeficient(M) == Det(Dot(Transpose(M), M)) = 0

\* ----------------------------------------------------- exact real numbers
\* The reals the adaptive learner computes with are kept as fractions
\* <<numerator, denominator>> in lowest terms, the denominator positive.
RECURSIVE GCD(_, _)
GCD(a, b) == IF b = 0 THEN a ELSE GCD(b, a % b)

AbsInt(x) == IF x < 0 THEN -x ELSE x

Frac(n, d) ==
    IF n = 0 THEN <<0, 1>>
    ELSE LET g == GCD(AbsInt(n), AbsInt(d))
             sgn == IF d < 0 THEN -1 ELSE 1
         IN  <<(sgn * n) \div g, (sgn * d) \div g>>

RZero == <<0, 1>>
ROne == <<1, 1>>
RAdd(a, b) == Frac(a[1] * b[2] + b[1] * a[2], a[2] * b[2])
RSub(a, b) == Frac(a[1] * b[2] - b[1] * a[2], a[2] * b[2])
RMul(a, b) == Frac(a[1] * b[1], a[2] * b[2])
RDiv(a, b) == Frac(a[1] * b[2], a[2] * b[1])

\* data.view(numpy.ndarray): the sample's numbers as reals
ToReal(M) == Mat(Rows(M), Cols(M),
        [r \in 1..(Rows(M)), c \in 1..(Cols(M)) |-> <<M[r][c], 1>>])

RZeros(T, n) == Mat(T, n, [r \in 1..T, c \in 1..n |-> RZero])

\* q * numpy.eye(n, n)
REye(n, q) == Mat(n, n,
        [r \in 1..n, c \in 1..n |-> IF r = c THEN q ELSE RZero])

RScale(q, M) == Mat(Rows(M), Cols(M),
        [r \in 1..(Rows(M)), c \in 1..(Cols(M)) |-> RMul(q, M[r][c])])

RECURSIVE RSumTo(_, _)
RSumTo(f, k) == IF k = 0 THEN RZero ELSE RAdd(f[k], RSumTo(f, k - 1))

\* numpy.dot of two real matrices whose inner dimensions agree
RDot(A, B) ==
    Mat(Rows(A), Cols(B),
        [r \in 1..(Rows(A)), c \in 1..(Cols(B)) |->
             RSumTo([k \in 1..Cols(A) |-> RMul(A[r][k], B[k][c])], Cols(A))])

\* numpy.dot raises ValueError unless the inner dimensions agree
DotFails(A, B) == Cols(A) # Rows(B)

\* numpy broadcasting of two 2-d arrays: each dimension equal, or one of them 1
BroadcastFails(A, B) ==
    \/ ~(Rows(A) = Rows(B) \/ Rows(A) = 1 \/ Rows(B) = 1)
    \/ ~(Cols(A) = Cols(B) \/ Cols(A) = 1 \/ Cols(B) = 1)

\* entry (r, c) of the array A stretched along its dimensions of length 1
At(A, r, c) == A[IF Rows(A) = 1 THEN 1 ELSE r][IF Cols(A) = 1 THEN 1 ELSE c]

\* the array A stretched to T x n
Stretch(A, T, n) == Mat(T, n, [r \in 1..T, c \in 1..n |-> At(A, r, c)])

\* A + B and A - B elementwise, with broadcasting
RPlus(A, B) ==
    Mat(Max(Rows(A), Rows(B)), Max(Cols(A), Cols(B)),
        [r \in 1..(Max(Rows(A), Rows(B))), c \in 1..(Max(Cols(A), Cols(B))) |->
             RAdd(At(A, r, c), At(B, r, c))])

RMinus(A, B) ==
    Mat(Max(Rows(A), Rows(B)), Max(Cols(A), Cols(B)),
        [r \in 1..(Max(Rows(A), Rows(B))), c \in 1..(Max(Cols(A), Cols(B))) |->
             RSub(At(A, r, c), At(B, r, c))])

RECURSIVE RDet(_)
RDet(M) ==
    IF Rows(M) = 1 THEN M[1][1]
    ELSE RSumTo([j \in 1..Cols(M) |->
                    RMul(RMul(IF j % 2 = 1 THEN ROne ELSE <<-1, 1>>, M[1][j]),
                         RDet(Minor(M, 1, j)))],
                Cols(M))

\* ------------------------------------------------------------------ samples
erp_class_label == "Target"
Labels == {"Target", "Standard"}
AllChannelNames == <<"Fz", "Cz", "Pz", "Oz">>

SampleValue(p, r, c) ==
    IF p = 0 THEN 0
    ELSE IF (r + c + p) % 2 = 0 THEN (p + 1) \div 2 ELSE 0

MkSample(T, n, p, l) ==
    [data |-> Mat(T, n, [r \in 1..T, c \in 1..n |->
             SampleValue(p, r, c)]),
     channel_names |-> SubSeq(AllChannelNames, 1, n),
     label |-> l]

\* the labelled samples the training feed may deliver
Samples ==
    {MkSample(T, n, p, l) : T \in 1..MaxTime, n \in 1..MaxChannels,
                            p \in 0..MaxPattern, l \in Labels}

\* the samples a projection may be asked for; projection does not read the
\* label
Probes ==
    {MkSample(T, n, 1, "Standard") : T \in 1..MaxTime, n \in 1..MaxChannels}

\* ---------------------------------------------------------------- variables
VARIABLES
    cls,                    \* class of the object: key of _NODE_MAPPING, or "SSNR"
    phase,                  \* "training" until stop_training has returned
    retained_channels,
    channel_names,
    X,
    D,
    filters,
    wi,
    ai,
    xDAWN_channel_names,
    store,
    trainable,              \* False for a learner built from load_filter_path
    stored,                 \* content of the pickle file written by store_state
    ssnr_is_permanent,      \* self.ssnr is the object permanent_state["ssnr"] holds
    permanent_ssnr,         \* attributes of the object permanent_state["ssnr"] holds
    ssnr_collection,        \* the split results added to the result collection
    opt_pc,                 \* position inside _gradient_optimization
    rho,                    \* learning rate: the power of 1/0.9 it stands at
    evals,                  \* evaluations counted, up to max_evals
    max_evals,
    f_v_1,                  \* objective_function(v_1) of the current v_1
    old_f_value,
    best_f_value,
    best_v_1,               \* None, or the objective value of the array it names
    best_is_v_1,            \* best_v_1 and v_1 name the same array
    run_finals,             \* objective values of the final v_1 of the runs made
    num_selected_electrodes,
    selected_indices,
    selected_channels,
    comp_type,
    lambda_signal,
    lambda_noise,
    predict_lambda_signal,
    predict_lambda_noise,
    R1,
    R2,
    R2inv,
    num_signals,
    num_noise,
    num_train_items,
    op,                     \* the method called last
    arg,                    \* the sample it was called with
    err,                    \* the exception it raised, "none" when it returned
    out,                    \* the value it returned
    warned                  \* the warning or log message it emitted

vars ==
    <<cls, phase, retained_channels, channel_names, X, D, filters, wi, ai,
      xDAWN_channel_names, store, trainable, stored,
      ssnr_is_permanent, permanent_ssnr, ssnr_collection,
      opt_pc, rho, evals, max_evals, f_v_1, old_f_value, best_f_value,
      best_v_1, best_is_v_1, run_finals,
      num_selected_electrodes,
      selected_indices, selected_channels, comp_type, lambda_signal,
      lambda_noise, predict_lambda_signal, predict_lambda_noise, R1, R2, R2inv,
      num_signals, num_noise, num_train_items, op, arg, err, out, warned>>

batchVars == <<filters, wi, ai, xDAWN_channel_names, stored>>
sparseVars == <<num_selected_electrodes, selected_indices, selected_channels>>
adaptiveVars ==
    <<predict_lambda_signal, predict_lambda_noise, R1, R2, R2inv, num_signals,
      num_noise, num_train_items>>
sinkVars == <<ssnr_is_permanent, permanent_ssnr, ssnr_collection>>
optVars ==
    <<opt_pc, rho, evals, max_evals, f_v_1, old_f_value, best_f_value,
      best_v_1, best_is_v_1, run_finals>>
configVars ==
    <<cls, store, trainable, comp_type, lambda_signal, lambda_noise>>

\* forgetting factors a configuration may ask for
LambdaValues == {<<1, 1>>, <<1, 2>>}

\* default of the parameter delta, 0.25
delta == <<1, 4>>

Classes == {"xDAWN", "Sparse_xDAWN", "axDAWN", "SSNR", "SSNRSinkNode"}

\* The values of the objective function: floats, of which only the order and
\* nan matter.  Every comparison with nan is False.
Finite(k) == [nan |-> FALSE, v |-> k]
NaN == [nan |-> TRUE, v |-> 0]
NegInf == [nan |-> FALSE, v |-> -1]
ObjectiveValues == {NaN} \cup {Finite(k) : k \in 0..MaxObjective}
FloatGE(a, b) == ~a.nan /\ ~b.nan /\ a.v >= b.v
FloatGT(a, b) == ~a.nan /\ ~b.nan /\ a.v > b.v

\* BaseNode.set_permanent_attributes records the attributes it is given in
\* permanent_state: either the objects themselves or copies of them.
PermanentKeepsReference == BOOLEAN

\* ------------------------------------------------------------- construction
\* XDAWNNode.__init__, SparseXDAWNNode.__init__ (retained_channels=None is
\* forced), AXDAWNNode.__init__, SSNR.__init__, SSNRSinkNode.__init__
Init ==
    /\ cls \in Classes
    /\ phase = "training"
    /\ retained_channels \in
           IF cls = "Sparse_xDAWN" THEN {NoneInt}
           ELSE {NoneInt} \cup (1..MaxRetained)
    /\ channel_names = None
    /\ X = None
    /\ D = None
    /\ filters = None
    /\ wi = None
    /\ ai = None
    /\ xDAWN_channel_names = None
    /\ store \in IF cls = "xDAWN" THEN BOOLEAN ELSE {FALSE}
    /\ trainable = TRUE
    /\ stored = None
    /\ ssnr_is_permanent \in
           IF cls = "SSNRSinkNode" THEN PermanentKeepsReference ELSE {FALSE}
    /\ permanent_ssnr =
           IF cls = "SSNRSinkNode"
           THEN Some([X |-> None, D |-> None,
                      retained_channels |-> retained_channels])
           ELSE None
    /\ ssnr_collection = <<>>
    /\ opt_pc = "idle"
    /\ rho = 0
    /\ evals = 0
    /\ max_evals = MaxEvals
    /\ f_v_1 = NaN
    /\ old_f_value = NaN
    /\ best_f_value = NegInf
    /\ best_v_1 = None
    /\ best_is_v_1 = FALSE
    /\ run_finals = {}
    /\ num_selected_electrodes \in
           IF cls = "Sparse_xDAWN" THEN {NoneInt} \cup (0..MaxSelected)
           ELSE {NoneInt}
    /\ selected_indices = None
    /\ selected_channels = None
    /\ comp_type \in IF cls = "axDAWN" THEN {"rls", "eig"} ELSE {"rls"}
    /\ lambda_signal \in IF cls = "axDAWN" THEN LambdaValues ELSE {ROne}
    /\ lambda_noise \in IF cls = "axDAWN" THEN LambdaValues ELSE {ROne}
    /\ predict_lambda_signal = ROne
    /\ predict_lambda_noise = ROne
    /\ R1 = None
    /\ R2 = None
    /\ R2inv = None
    /\ num_signals = 0
    /\ num_noise = 0
    /\ num_train_items = 0
    /\ op = "__init__"
    /\ arg = None
    /\ err = "none"
    /\ out = None
    /\ warned = "none"

\* ------------------------------------------------- accumulation of X and D
\* a block that does not look at the label
IdentityBlockAlways(data, label) == Eye(Rows(data))

\* the block of D one example contributes
IndicatorBlock(data, label) ==
    IF label = erp_class_label
    THEN Eye(Rows(data))
    ELSE Zeros(Rows(data), Rows(data))

\* a vstack that would accept blocks of any width
VStackAcceptsAnyWidth(A, B) == FALSE

\* numpy.vstack raises ValueError unless the column counts agree
VStackFails(A, B) == Cols(A) # Cols(B)

\* "Iteratively construct Toeplitz matrix D and data matrix X": X is assigned
\* before the vstack of D is attempted.
Accumulate(Xc, Dc, data, label) ==
    LET Dk == IndicatorBlock(data, label) IN
    IF Xc = None
    THEN [X |-> data, D |-> Dk, err |-> "none"]
    ELSE IF VStackFails(Xc, data)
    THEN [X |-> Xc, D |-> Dc, err |-> "ValueError"]
    ELSE IF VStackFails(Dc, Dk)
    THEN [X |-> Xc \o data, D |-> Dc, err |-> "ValueError"]
    ELSE [X |-> Xc \o data, D |-> Dc \o Dk, err |-> "none"]

\* `if self.retained_channels in [None, 'None']`
DefaultRetained(rc, cn) == IF rc = NoneInt THEN Len(cn) ELSE rc

\* `if len(self.channel_names) < self.retained_channels`
TooManyRetained(rc, cn) == rc # NoneInt /\ Len(cn) < rc

ClampRetained(rc, cn) == IF TooManyRetained(rc, cn) THEN Len(cn) ELSE rc

RoomToGrow == X = None \/ Rows(X) < MaxRows

\* XDAWNNode._train, inherited by SparseXDAWNNode
XDAWNNode_train(s) ==
    /\ cls \in {"xDAWN", "Sparse_xDAWN"}
    /\ phase = "training"
    /\ RoomToGrow
    /\ \E acc \in {Accumulate(X, D, s.data, s.label)} :
       LET first == channel_names = None
           cn == IF first THEN s.channel_names ELSE channel_names
           rc1 == IF first THEN DefaultRetained(retained_channels, cn)
                  ELSE retained_channels
       IN  /\ channel_names' = cn
           /\ retained_channels' = ClampRetained(rc1, cn)
           /\ warned' = IF TooManyRetained(rc1, cn) THEN "clamp" ELSE "none"
           /\ X' = acc.X
           /\ D' = acc.D
           /\ err' = acc.err
    /\ op' = "_train"
    /\ arg' = Some(s)
    /\ out' = None
    /\ UNCHANGED <<configVars, sinkVars, optVars, phase, batchVars, sparseVars, adaptiveVars>>

\* SSNR.add_example
SSNR_add_example(s) ==
    /\ cls = "SSNR"
    /\ RoomToGrow
    /\ \E acc \in {Accumulate(X, D, s.data, s.label)} :
           /\ retained_channels' =
                  IF retained_channels = NoneInt THEN Cols(s.data)
                  ELSE Min(retained_channels, Cols(s.data))
           /\ X' = acc.X
           /\ D' = acc.D
           /\ err' = acc.err
    /\ op' = "add_example"
    /\ arg' = Some(s)
    /\ out' = None
    /\ warned' = "none"
    /\ UNCHANGED <<configVars, sinkVars, optVars, phase, channel_names, batchVars, sparseVars, adaptiveVars>>

\* --------------------------------------------------- batch finalisation
\* Whether numpy.linalg.inv(Rx) raises LinAlgError, Rx being the factor of
\* the economic QR of X (min(m, n) x n): it does when Rx is not square and
\* when Rx is exactly singular.  A zero column of X gives an exactly zero
\* pivot; for any other rank-deficient X rounding decides whether the pivot
\* is exactly zero, so both outcomes are possible.
InvRxOutcomes(Xc) ==
    IF Rows(Xc) < Cols(Xc) THEN {TRUE}
    ELSE IF HasZeroColumn(Xc) THEN {TRUE}
    ELSE IF RankDeficient(Xc) THEN {TRUE, FALSE}
    ELSE {FALSE}

\* Whether numpy.linalg.inv(Rd) raises LinAlgError: the columns of D are
\* orthogonal 0/1 columns, so Rd is singular exactly when one of them is zero.
InvRdFails(Dc) == HasZeroColumn(Dc)

\* The exception XDAWNNode._stop_training raises ("none": it returns), given
\* whether inv(Rx) raises: qr(None), then dot(Qd.T, Qx), then inv(Rx), then
\* inv(Rd), all before the first assignment to self.filters.
StopTrainingError(Xc, Dc, rxFails) ==
    IF Xc = None THEN "ValueError"
    ELSE IF Rows(Xc) # Rows(Dc) THEN "ValueError"
    ELSE IF rxFails THEN "LinAlgError"
    ELSE IF InvRdFails(Dc) THEN "LinAlgError"
    ELSE "none"

\* Psi.shape[1]: Qd.T Qx has min(m, n) columns, the full SVD makes Psi square
PsiColumns(Xc) == Min(Rows(Xc), Cols(Xc))

\* self.filters after the loop: one column u_i = Rx^-1 Psi_i per column of Psi
XDAWN_filters(Xc) ==
    [rows |-> Cols(Xc), cols |-> PsiColumns(Xc), src |-> "qr_svd"]

\* self.wi: one row w_i per column of Psi
XDAWN_wi(Xc) == [rows |-> PsiColumns(Xc), cols |-> Cols(Xc), src |-> "qr_svd"]

\* self.ai: one row a_i per i < Phi.shape[1]
XDAWN_ai(Xc, Dc) ==
    [rows |-> Min(PsiColumns(Xc), Cols(Dc)), cols |-> Cols(Dc), src |-> "qr_svd"]

\* XDAWNNode._stop_training
XDAWNNode_stop_training ==
    /\ cls = "xDAWN"
    /\ phase = "training"
    /\ \E rxFails \in (IF X = None THEN {FALSE} ELSE InvRxOutcomes(X)) :
          LET e == StopTrainingError(X, D, rxFails) IN
          /\ err' = e
          /\ IF e = "none"
             THEN /\ filters' = Some(XDAWN_filters(X))
                  /\ wi' = Some(XDAWN_wi(X))
                  /\ ai' = Some(XDAWN_ai(X, D))
                  /\ D' = None
                  /\ X' = None
                  /\ phase' = "trained"
             ELSE UNCHANGED <<filters, wi, ai, D, X, phase>>
    /\ op' = "_stop_training"
    /\ arg' = None
    /\ out' = None
    /\ warned' = "none"
    /\ UNCHANGED <<configVars, sinkVars, optVars, retained_channels, channel_names,
                   xDAWN_channel_names, stored, sparseVars, adaptiveVars>>

\* ["xDAWN%03d" % i for i in range(k)], a name kept as its number
XDAWNNames(k) == [i \in 1..k |-> i - 1]

\* a projection that would apply the whole filter bank, self.filters
AllColumns(f, k) == f.cols

\* self.filters[:, :k]: a slice never has more columns than the array
LeadingColumns(f, k) == Min(k, f.cols)

\* numpy.dot(data_array, self.filters[:, :k]) raises ValueError unless the
\* sample has as many columns as the filter bank has rows
ProjectionFails(data, f) == Cols(data) # f.rows

\* self.filters[:, :k] raises TypeError when self.filters is the tuple that
\* cPickle.load returned and not an array
SliceFails(f) == f.src = "unpickled"

\* XDAWNNode._execute
XDAWNNode_execute(s) ==
    /\ cls = "xDAWN"
    /\ phase = "trained"
    /\ LET cn == IF channel_names = None THEN s.channel_names
                 ELSE channel_names
           rc1 == DefaultRetained(retained_channels, cn)
           rc2 == ClampRetained(rc1, cn)
           e == IF filters = None THEN "TypeError"
                ELSE IF SliceFails(filters[1]) THEN "TypeError"
                ELSE IF ProjectionFails(s.data, filters[1]) THEN "ValueError"
                ELSE "none"
           names == IF xDAWN_channel_names = None THEN XDAWNNames(rc2)
                    ELSE xDAWN_channel_names
       IN  /\ channel_names' = cn
           /\ retained_channels' = rc2
           /\ warned' = IF TooManyRetained(rc1, cn) THEN "clamp" ELSE "none"
           /\ err' = e
           /\ IF e = "none"
              THEN /\ xDAWN_channel_names' = names
                   /\ out' = Some([rows |-> Rows(s.data),
                                   cols |-> LeadingColumns(filters[1], rc2),
                                   channel_names |-> names])
              ELSE /\ UNCHANGED xDAWN_channel_names
                   /\ out' = None
    /\ op' = "_execute"
    /\ arg' = Some(s)
    /\ UNCHANGED <<configVars, sinkVars, optVars, phase, X, D, filters, wi, ai, stored, sparseVars, adaptiveVars>>

\* XDAWNNode.store_state: the pickle of (self.filters, self.wi, self.ai).
\* self.wi and self.ai exist only once _stop_training has set them; the file
\* is opened (and so emptied) before the tuple is built.
XDAWNNode_store_state ==
    /\ cls = "xDAWN"
    /\ store
    /\ IF wi = None
       THEN /\ err' = "AttributeError"
            /\ stored' = Some([filters |-> None, wi |-> None, ai |-> None,
                               complete |-> FALSE])
       ELSE /\ err' = "none"
            /\ stored' = Some([filters |-> filters, wi |-> wi, ai |-> ai,
                               complete |-> TRUE])
    /\ op' = "store_state"
    /\ arg' = None
    /\ out' = None
    /\ warned' = "none"
    /\ UNCHANGED <<configVars, sinkVars, optVars, phase, retained_channels, channel_names, X, D,
                   filters, wi, ai, xDAWN_channel_names, sparseVars, adaptiveVars>>

\* cPickle.load of the file store_state wrote: the object that was pickled,
\* the tuple (filters, wi, ai)
Unpickled(file) ==
    [src |-> "unpickled", items |-> <<file.filters, file.wi, file.ai>>]

\* XDAWNNode.__init__ with load_filter_path naming the file store_state wrote:
\* a new learner takes the place of the one that wrote the file.  The file is
\* empty when store_state failed after opening it; cPickle.load then raises
\* EOFError and no learner is made.
XDAWNNode_init_load(rc) ==
    /\ cls = "xDAWN"
    /\ stored # None
    /\ IF ~stored[1].complete
       THEN /\ err' = "EOFError"
            /\ UNCHANGED <<trainable, phase, retained_channels, channel_names,
                           X, D, filters, wi, ai, xDAWN_channel_names>>
       ELSE /\ err' = "none"
            /\ trainable' = FALSE
            /\ phase' = "trained"
            /\ retained_channels' = rc
            /\ channel_names' = None
            /\ X' = None
            /\ D' = None
            /\ filters' = Some(Unpickled(stored[1]))
            /\ wi' = None
            /\ ai' = None
            /\ xDAWN_channel_names' = None
    /\ op' = "__init__"
    /\ arg' = None
    /\ out' = None
    /\ warned' = "none"
    /\ UNCHANGED <<cls, store, comp_type, lambda_signal, lambda_noise, stored,
                   sinkVars, optVars, sparseVars, adaptiveVars>>

\* ------------------------------------------------------- sparse learner
\* The vector _gradient_optimization returns: a unit vector, its entries kept
\* as integer multiples of a common positive scale.  Which vector it is
\* depends on the random restarts and is not determined by X and D.
GradientOptimizationResults(n) ==
    {v \in [1..n -> (-MaxWeight)..MaxWeight] : \E i \in 1..n : v[i] # 0}

\* sorted(numpy.absolute(v))[j - 1]: the j-th smallest magnitude
KthSmallestAbs(v, j) ==
    CHOOSE a \in {AbsInt(v[i]) : i \in 1..Len(v)} :
        /\ Cardinality({i \in 1..Len(v) : AbsInt(v[i]) < a}) < j
        /\ j <= Cardinality({i \in 1..Len(v) : AbsInt(v[i]) <= a})

\* sorted(numpy.absolute(v_1))[-k]: for k = 0 the index -0 is index 0
Threshold(v, k) == KthSmallestAbs(v, IF k = 0 THEN 1 ELSE Len(v) - k + 1)

\* v_1[numpy.absolute(v_1) < threshold] = 0
Prune(v, k) ==
    SubSeq([i \in 1..Len(v) |->
               IF AbsInt(v[i]) < Threshold(v, k) THEN 0 ELSE v[i]], 1, Len(v))

RECURSIVE Ascending(_)
Ascending(S) ==
    IF S = {} THEN <<>>
    ELSE LET m == CHOOSE x \in S : \A y \in S : x <= y
         IN  <<m>> \o Ascending(S \ {m})

\* list(numpy.where(numpy.absolute(v_1) > 0)[0]): 0-based, ascending
NonZeroIndices(v) == Ascending({i - 1 : i \in {j \in 1..Len(v) : v[j] # 0}})

\* The exception SparseXDAWNNode._stop_training raises before the
\* optimisation starts: self.D.T on None, inv(D.T D), dot(..., self.X)
SparseEstimateError(Xc, Dc) ==
    IF Dc = None THEN "AttributeError"
    ELSE IF HasZeroColumn(Dc) THEN "LinAlgError"
    ELSE IF Rows(Xc) # Rows(Dc) THEN "ValueError"
    ELSE "none"

\* SparseXDAWNNode._stop_training
SparseXDAWNNode_stop_training ==
    /\ cls = "Sparse_xDAWN"
    /\ phase = "training"
    /\ LET k == IF num_selected_electrodes = NoneInt THEN retained_channels
                ELSE num_selected_electrodes
           e1 == SparseEstimateError(X, D)
       IN  /\ num_selected_electrodes' = k
           /\ IF e1 # "none"
              THEN /\ err' = e1
                   /\ UNCHANGED <<selected_indices, selected_channels, phase>>
              ELSE \E v \in GradientOptimizationResults(Cols(X)) :
                      IF k > Len(v)
                      THEN /\ err' = "IndexError"
                           /\ UNCHANGED <<selected_indices, selected_channels,
                                          phase>>
                      ELSE LET idx == NonZeroIndices(Prune(v, k)) IN
                           /\ err' = "none"
                           /\ selected_indices' = Some(idx)
                           /\ selected_channels' =
                                  Some([j \in 1..Len(idx) |->
                                           channel_names[idx[j] + 1]])
                           /\ phase' = "trained"
    /\ op' = "_stop_training"
    /\ arg' = None
    /\ out' = None
    /\ warned' = "none"
    /\ UNCHANGED <<configVars, sinkVars, optVars, retained_channels, channel_names, X, D,
                   batchVars, adaptiveVars>>

\* data[:, self.selected_indices] raises IndexError when an index is out of
\* the sample's columns
SelectionFails(data, idx) == \E j \in 1..Len(idx) : idx[j] >= Cols(data)

\* a selection that would take as many leading columns as there are indices
SelectLeadingColumns(data, idx) ==
    Mat(Rows(data), Len(idx),
        [r \in 1..Rows(data), j \in 1..Len(idx) |-> data[r][j]])

\* data[:, self.selected_indices]: the columns at the 0-based indices idx
SelectColumns(data, idx) ==
    Mat(Rows(data), Len(idx),
        [r \in 1..Rows(data), j \in 1..Len(idx) |-> data[r][idx[j] + 1]])

\* SparseXDAWNNode._execute
SparseXDAWNNode_execute(s) ==
    /\ cls = "Sparse_xDAWN"
    /\ phase = "trained"
    /\ LET idx == selected_indices[1] IN
       IF SelectionFails(s.data, idx)
       THEN /\ err' = "IndexError"
            /\ out' = None
       ELSE /\ err' = "none"
            /\ out' = Some([rows |-> Rows(s.data),
                            cols |-> Len(idx),
                            channel_names |-> selected_channels[1],
                            data |-> SelectColumns(s.data, idx)])
    /\ op' = "_execute"
    /\ arg' = Some(s)
    /\ warned' = "none"
    /\ UNCHANGED <<configVars, sinkVars, optVars, phase, retained_channels, channel_names, X, D,
                   batchVars, sparseVars, adaptiveVars>>

\* a get_filters that would hand out the selection as if it were a ranking
SparseXDAWNNode_get_filters_ranking ==
    /\ cls = "Sparse_xDAWN"
    /\ err' = "none"
    /\ out' = Some([kind |-> "ranking", indices |-> selected_indices])
    /\ op' = "get_filters"
    /\ arg' = None
    /\ warned' = "none"
    /\ UNCHANGED <<configVars, sinkVars, optVars, phase, retained_channels, channel_names, X, D,
                   batchVars, sparseVars, adaptiveVars>>

\* SparseXDAWNNode.get_filters
SparseXDAWNNode_get_filters ==
    /\ cls = "Sparse_xDAWN"
    /\ err' = "NotImplementedError"
    /\ out' = None
    /\ op' = "get_filters"
    /\ arg' = None
    /\ warned' = "none"
    /\ UNCHANGED <<configVars, sinkVars, optVars, phase, retained_channels, channel_names, X, D,
                   batchVars, sparseVars, adaptiveVars>>

\* ------------------------------------------------------ SSNR computations
\* SSNR._compute_Sigma: the warning it emits and the exception it raises.
\* After either warning the computation goes on to D.T and inv(D.T D).
ComputeSigma(Xc, Dc) ==
    IF Dc = None
    THEN [warned |-> "nodata", err |-> "AttributeError"]
    ELSE [warned |-> IF ~Contains1(Dc) THEN "noERP" ELSE "none",
          err |-> IF HasZeroColumn(Dc) THEN "LinAlgError"
                  ELSE IF Rows(Xc) # Rows(Dc) THEN "ValueError"
                  ELSE "none"]

\* SSNR._compute_xDAWN_filters: dot(Qd.T, Qx), then inv(Rx) in the loop
ComputeFiltersError(Xc, Dc, rxFails) ==
    IF Rows(Xc) # Rows(Dc) THEN "ValueError"
    ELSE IF rxFails THEN "LinAlgError"
    ELSE "none"

\* the scalar a / b that SSNR._ssnr returns
SSNRValue == Some([kind |-> "ssnr"])

\* SSNR.ssnr_as, no electrode selection given
SSNR_ssnr_as ==
    /\ cls = "SSNR"
    /\ LET cs == IF X = None
                 THEN [warned |-> "none", err |-> "AttributeError"]
                 ELSE ComputeSigma(X, D)
       IN  /\ err' = cs.err
           /\ warned' = cs.warned
           /\ out' = IF cs.err = "none" THEN SSNRValue ELSE None
    /\ op' = "ssnr_as"
    /\ arg' = None
    /\ UNCHANGED <<configVars, sinkVars, optVars, phase, retained_channels, channel_names, X, D,
                   batchVars, sparseVars, adaptiveVars>>

\* The electrode selections a caller may give: the 0-based indices of a
\* non-empty subset of the n channels, in any order.
ElectrodeSelections(n) ==
    {sel \in UNION {[1..k -> 0..(n - 1)] : k \in 1..n} :
        \A p, q \in 1..Len(sel) : p # q => sel[p] # sel[q]}

\* `if selected_electrodes is None: selected_electrodes = range(self.X.shape[1])`
DefaultSelection(sel, n) == IF sel = None THEN [p \in 1..n |-> p - 1] ELSE sel

\* the selections a call on the accumulation Xc may be given
SelectionsFor(Xc) ==
    IF Xc = None THEN {None} ELSE {None} \cup ElectrodeSelections(Cols(Xc))

\* the weight partial_filters[index, j] of the filters learned on the
\* selected columns, index and j counted from 1 here; no weight at all
PartialWeight(index, j) == [row |-> index, col |-> j]
ZeroWeight == [row |-> 0, col |-> 0]

\* the position index of the last pass of the loop over
\* enumerate(selected_electrodes) that writes row e of filters
LastPosition(sel, e) ==
    CHOOSE p \in 1..Len(sel) :
        sel[p] = e /\ \A q \in (p + 1)..Len(sel) : sel[q] # e

\* an expansion that would put row p of the subset filter at row p
ExpandFiltersInOrder(n, rc, sel) ==
    Mat(n, rc, [r \in 1..n, j \in 1..rc |->
        IF r <= Len(sel) /\ j <= Min(rc, Len(sel))
        THEN PartialWeight(r, j)
        ELSE ZeroWeight])

\* "Expand partial filters to a filter for all electrodes": filters is
\* zeros((X.shape[1], retained_channels)); partial_filters has as many rows
\* and columns as electrodes are selected.  e is the 0-based row of filters.
ExpandFilters(n, rc, sel) ==
    Mat(n, rc, [r \in 1..n, j \in 1..rc |->
        IF (\E p \in 1..Len(sel) : sel[p] = r - 1) /\ j <= Min(rc, Len(sel))
        THEN PartialWeight(LastPosition(sel, r - 1), j)
        ELSE ZeroWeight])

\* the value a / b that SSNR._ssnr computes with the filters v
SSNRWith(v) == Some([kind |-> "ssnr", filters |-> v])

\* an entry of a matrix that LAPACK geqrf has written its factorisation to
QrWritten == 2

\* qr(D, overwrite_a=True) is handed self.D itself and may write the
\* factorisation into it.  geqrf works in place on a Fortran-contiguous
\* array, which D is when it has a single column; the Householder step
\* changes the column unless all entries below the first are zero.
QrOverwrites(Dc) ==
    Cols(Dc) = 1 /\ \E r \in 2..Rows(Dc) : Dc[r][1] # 0

Factorised(Dc) ==
    Mat(Rows(Dc), 1, [r \in 1..Rows(Dc), c \in 1..1 |->
        IF r = 1 \/ Dc[r][1] # 0 THEN QrWritten ELSE 0])

\* what self.D holds after _compute_xDAWN_filters was entered
QrOutcomes(Dc) == IF QrOverwrites(Dc) THEN {Dc, Factorised(Dc)} ELSE {Dc}

\* SSNR.ssnr_vs for the electrode selection sel, None when none is given
SSNR_ssnr_vs(sel) ==
    /\ cls = "SSNR"
    /\ sel \in SelectionsFor(X)
    /\ \E sl \in {IF X = None THEN None ELSE DefaultSelection(sel, Cols(X))} :
       \E Xs \in {IF X = None THEN None ELSE SelectColumns(X, sl)} :
       \E rxFails \in (IF X = None THEN {FALSE} ELSE InvRxOutcomes(Xs)) :
       \E cs \in {IF X = None
                  THEN [warned |-> "none", err |-> "AttributeError"]
                  ELSE ComputeSigma(X, D)} :
       \E Dq \in (IF cs.err = "none" THEN QrOutcomes(D) ELSE {D}) :
          LET e == IF cs.err # "none" THEN cs.err
                   ELSE ComputeFiltersError(Xs, D, rxFails)
          IN  /\ err' = e
              /\ warned' = cs.warned
              /\ D' = Dq
              /\ out' = IF e = "none"
                        THEN SSNRWith(ExpandFilters(Cols(X), retained_channels,
                                                    sl))
                        ELSE None
    /\ op' = "ssnr_vs"
    /\ arg' = Some([selected_electrodes |-> sel])
    /\ UNCHANGED <<configVars, sinkVars, optVars, phase, retained_channels,
                   channel_names, X, batchVars, sparseVars, adaptiveVars>>

\* The test accumulations SSNRSinkNode.process_current_split hands to
\* ssnr_vs_test: here those of one test example.  The metric reads the
\* channel count of the test data and whether D_test has a one and a zero
\* column, so one example per channel count and label covers its outcomes.
TestAccumulations ==
    {Accumulate(None, None, s.data, s.label) :
        s \in {MkSample(MaxTime, n, MaxPattern, l) :
                   n \in 1..MaxChannels, l \in Labels}}

\* SSNR.ssnr_vs_test for the electrode selection sel, None when none is
\* given: the filters come from self.X and self.D, the covariance estimates
\* from X_test and D_test; _ssnr multiplies the n-row filter matrix with the
\* test covariances.
SSNR_ssnr_vs_test(t, sel) ==
    /\ cls = "SSNR"
    /\ sel \in SelectionsFor(X)
    /\ \E sl \in {IF X = None THEN None ELSE DefaultSelection(sel, Cols(X))} :
       \E Xs \in {IF X = None THEN None ELSE SelectColumns(X, sl)} :
       \E rxFails \in (IF X = None THEN {FALSE} ELSE InvRxOutcomes(Xs)) :
       \E Dq \in (IF X = None THEN {D} ELSE QrOutcomes(D)) :
          LET e1 == IF X = None THEN "AttributeError"
                    ELSE ComputeFiltersError(Xs, D, rxFails)
              cs == ComputeSigma(t.X, t.D)
              e == IF e1 # "none" THEN e1
                   ELSE IF cs.err # "none" THEN cs.err
                   ELSE IF Cols(X) # Cols(t.X) THEN "ValueError"
                   ELSE "none"
          IN  /\ err' = e
              /\ warned' = IF e1 # "none" THEN "none" ELSE cs.warned
              /\ D' = Dq
              /\ out' = IF e = "none"
                        THEN SSNRWith(ExpandFilters(Cols(X), retained_channels,
                                                    sl))
                        ELSE None
    /\ op' = "ssnr_vs_test"
    /\ arg' = Some([selected_electrodes |-> sel])
    /\ UNCHANGED <<configVars, sinkVars, optVars, phase, retained_channels,
                   channel_names, X, batchVars, sparseVars, adaptiveVars>>

\* ------------------------------------------- sparse gradient optimisation
\* SparseXDAWNNode._gradient_optimization, statement by statement.  The
\* learning rate is a float that starts at 1.0 and is only ever multiplied
\* or divided by 0.9: rho is the number of divisions less the number of
\* multiplications.  The objective values are not computed: the outcome of
\* every comparison of objective values is any outcome a float comparison has.
nodeVars ==
    <<cls, phase, retained_channels, channel_names, X, D, filters, wi, ai,
      xDAWN_channel_names, store, trainable, stored, sinkVars, sparseVars,
      comp_type, lambda_signal, lambda_noise, adaptiveVars, op, arg, err, out,
      warned>>

\* `rho > 10**-5`
AboveThreshold(r) == r > -RhoSteps

\* `rho < 10**-5`
BelowThreshold(r) == r <= -RhoSteps

\* the float rho has overflowed to inf
IsInf(r) == r >= RhoOverflow

\* `rho /= 0.9`
Grow(r) == IF IsInf(r) THEN r ELSE r + 1

\* `rho *= 0.9`: inf * 0.9 is inf
Shrink(r) == IF IsInf(r) THEN r ELSE r - 1

\* `evals += 1`; evals is only ever compared with max_evals, and is counted
\* up to it
CountEvaluation(e, m) == IF e >= m THEN e ELSE e + 1

\* `evals >= max_evals`
BudgetSpent(e, m) == e >= m

\* objective_function(v_1) after `v_1 += rho * subgradient` and the
\* renormalisation: with rho = inf every entry of v_1 is nan and so is the
\* objective.
StepValues(r) == IF IsInf(r) THEN {NaN} ELSE ObjectiveValues

\* entry: best_f_value = -inf, best_v_1 = None, evals = 0
Opt_call(m) ==
    /\ opt_pc = "idle"
    /\ max_evals' = m
    /\ evals' = 0
    /\ best_f_value' = NegInf
    /\ best_v_1' = None
    /\ best_is_v_1' = FALSE
    /\ run_finals' = {}
    /\ rho' = 0
    /\ opt_pc' = "restart"
    /\ UNCHANGED <<nodeVars, f_v_1, old_f_value>>

\* head of the restart loop: v_1 names a new random array, rho = 1.0
Opt_restart(f) ==
    /\ opt_pc = "restart"
    /\ f_v_1' = f
    /\ best_is_v_1' = FALSE
    /\ rho' = 0
    /\ opt_pc' = "gradient"
    /\ UNCHANGED <<nodeVars, evals, max_evals, old_f_value, best_f_value,
                   best_v_1, run_finals>>

\* `while rho > 10**-5`, the subgradient of one ascent step, v_1_old and
\* old_f_value
Opt_gradient ==
    /\ opt_pc = "gradient"
    /\ IF AboveThreshold(rho)
       THEN /\ old_f_value' = f_v_1
            /\ opt_pc' = "search"
       ELSE /\ old_f_value' = old_f_value
            /\ opt_pc' = "run_end"
    /\ UNCHANGED <<nodeVars, rho, evals, max_evals, f_v_1, best_f_value,
                   best_v_1, best_is_v_1, run_finals>>

\* head of the inner `while True`, the search for a learning rate:
\* `evals += 1`, then the step `v_1 += rho * subgradient` and the
\* renormalisation, both in place: an array best_v_1 also names changes too
Opt_search(f) ==
    /\ opt_pc = "search"
    /\ f \in StepValues(rho)
    /\ evals' = CountEvaluation(evals, max_evals)
    /\ f_v_1' = f
    /\ best_v_1' = IF best_is_v_1 THEN Some(f) ELSE best_v_1
    /\ opt_pc' = "compare"
    /\ UNCHANGED <<nodeVars, rho, max_evals, old_f_value, best_f_value,
                   best_is_v_1, run_finals>>

\* `if objective_function(v_1) >= old_f_value`: the step is kept and rho is
\* increased, or rho is reduced, v_1 names a new copy of v_1_old and the
\* search goes on unless `rho < 10**-5`
Opt_compare ==
    /\ opt_pc = "compare"
    /\ IF FloatGE(f_v_1, old_f_value)
       THEN /\ rho' = Grow(rho)
            /\ opt_pc' = "budget"
            /\ UNCHANGED <<f_v_1, best_is_v_1>>
       ELSE /\ rho' = Shrink(rho)
            /\ f_v_1' = old_f_value
            /\ best_is_v_1' = FALSE
            /\ opt_pc' = IF BelowThreshold(Shrink(rho)) THEN "budget"
                         ELSE "search"
    /\ UNCHANGED <<nodeVars, evals, max_evals, old_f_value, best_f_value,
                   best_v_1, run_finals>>

\* `if evals >= max_evals: break` at the end of an ascent step
Opt_budget ==
    /\ opt_pc = "budget"
    /\ opt_pc' = IF BudgetSpent(evals, max_evals) THEN "run_end" ELSE "gradient"
    /\ UNCHANGED <<nodeVars, rho, evals, max_evals, f_v_1, old_f_value,
                   best_f_value, best_v_1, best_is_v_1, run_finals>>

\* `objective_function(v_1) > best_f_value`
NewOptimum(f, best) == FloatGT(f, best)

\* end of a run: `if objective_function(v_1) > best_f_value`, then
\* `if evals >= max_evals: return best_v_1`
Opt_run_end ==
    /\ opt_pc = "run_end"
    /\ run_finals' = run_finals \cup {f_v_1}
    /\ IF NewOptimum(f_v_1, best_f_value)
       THEN /\ best_f_value' = f_v_1
            /\ best_v_1' = Some(f_v_1)
            /\ best_is_v_1' = TRUE
       ELSE UNCHANGED <<best_f_value, best_v_1, best_is_v_1>>
    /\ opt_pc' = IF BudgetSpent(evals, max_evals) THEN "done" ELSE "restart"
    /\ UNCHANGED <<nodeVars, rho, evals, max_evals, f_v_1, old_f_value>>

OptInit == Init /\ cls = "Sparse_xDAWN"

OptNext ==
    \/ \E m \in 1..MaxEvals : Opt_call(m)
    \/ \E f \in ObjectiveValues : Opt_restart(f)
    \/ Opt_gradient
    \/ \E f \in ObjectiveValues : Opt_search(f)
    \/ Opt_compare
    \/ Opt_budget
    \/ Opt_run_end

\* The code is sequential and nothing interrupts it: it always takes its
\* next step.
OptSpec == OptInit /\ [][OptNext]_vars /\ WF_vars(OptNext)

\* ------------------------------------------------------------ SSNR sink
\* the attributes of the SSNR object self.ssnr refers to
SsnrAttributes(Xc, Dc, rc) == Some([X |-> Xc, D |-> Dc, retained_channels |-> rc])

\* What permanent_state["ssnr"] holds after self.ssnr was changed: the same
\* attributes when both names refer to one object.
PermanentAfter(Xc, Dc, rc) ==
    IF ssnr_is_permanent THEN SsnrAttributes(Xc, Dc, rc) ELSE permanent_ssnr

\* SSNRSinkNode._train: self.ssnr.add_example(data, label)
SSNRSinkNode_train(s) ==
    /\ cls = "SSNRSinkNode"
    /\ RoomToGrow
    /\ \E acc \in {Accumulate(X, D, s.data, s.label)} :
       \E rc \in {IF retained_channels = NoneInt THEN Cols(s.data)
                  ELSE Min(retained_channels, Cols(s.data))} :
           /\ retained_channels' = rc
           /\ X' = acc.X
           /\ D' = acc.D
           /\ err' = acc.err
           /\ permanent_ssnr' = PermanentAfter(acc.X, acc.D, rc)
    /\ op' = "_train"
    /\ arg' = Some(s)
    /\ out' = None
    /\ warned' = "none"
    /\ UNCHANGED <<configVars, optVars, ssnr_is_permanent, ssnr_collection, phase,
                   channel_names, batchVars, sparseVars, adaptiveVars>>

\* SSNRSinkNode.reset: __dict__ becomes a shallow copy of permanent_state, in
\* which ssnr_collection was replaced by the current result collection; the
\* SSNR object of permanent_state is not copied.
SSNRSinkNode_reset ==
    /\ cls = "SSNRSinkNode"
    /\ X' = permanent_ssnr[1].X
    /\ D' = permanent_ssnr[1].D
    /\ retained_channels' = permanent_ssnr[1].retained_channels
    /\ ssnr_is_permanent' = TRUE
    /\ op' = "reset"
    /\ arg' = None
    /\ err' = "none"
    /\ out' = None
    /\ warned' = "none"
    /\ UNCHANGED <<configVars, optVars, permanent_ssnr, ssnr_collection, phase,
                   channel_names, batchVars, sparseVars, adaptiveVars>>

\* the training examples the input node hands to one split
SplitFeeds == {<<>>} \cup {<<s>> : s \in Samples}

\* the test accumulations X_test, D_test of one split: None without test data
SplitTests == {None} \cup {Some(t) : t \in TestAccumulations}

\* the exception the metrics of process_current_split raise first: ssnr_as,
\* ssnr_vs, then ssnr_vs_test when there is test data
SplitMetricsError(Xc, Dc, rxFails, test) ==
    LET cs == IF Xc = None
              THEN [warned |-> "none", err |-> "AttributeError"]
              ELSE ComputeSigma(Xc, Dc)
        e2 == IF cs.err # "none" THEN cs.err
              ELSE ComputeFiltersError(Xc, Dc, rxFails)
        ct == IF test = None THEN [warned |-> "none", err |-> "none"]
              ELSE ComputeSigma(test[1].X, test[1].D)
    IN  [warned |-> IF e2 = "none" /\ ct.warned # "none" THEN ct.warned
                    ELSE cs.warned,
         err |-> IF e2 # "none" THEN e2
                 ELSE IF ct.err # "none" THEN ct.err
                 ELSE IF test # None /\ Cols(Xc) # Cols(test[1].X)
                 THEN "ValueError"
                 ELSE "none"]

\* the metrics one split adds to the result collection
Performance(test) ==
    IF test = None THEN {"ssnr_as", "ssnr_vs"}
    ELSE {"ssnr_as", "ssnr_vs", "ssnr_vs_test"}

\* SSNRSinkNode.process_current_split: train on the training examples,
\* compute the metrics, add them to the result collection
SSNRSinkNode_process_current_split(feed, test) ==
    /\ cls = "SSNRSinkNode"
    /\ Len(ssnr_collection) < MaxSplits
    /\ feed # <<>> => RoomToGrow
    /\ \E acc \in {IF feed = <<>> THEN [X |-> X, D |-> D, err |-> "none"]
                   ELSE Accumulate(X, D, feed[1].data, feed[1].label)} :
       \E rc \in {IF feed = <<>> THEN retained_channels
                  ELSE IF retained_channels = NoneInt THEN Cols(feed[1].data)
                  ELSE Min(retained_channels, Cols(feed[1].data))} :
       \E rxFails \in (IF acc.X = None THEN {FALSE} ELSE InvRxOutcomes(acc.X)) :
       \E m \in {IF acc.err # "none" THEN [warned |-> "none", err |-> acc.err]
                 ELSE SplitMetricsError(acc.X, acc.D, rxFails, test)} :
       \E Dq \in (IF /\ acc.err = "none"
                     /\ acc.X # None
                     /\ ComputeSigma(acc.X, acc.D).err = "none"
                  THEN QrOutcomes(acc.D) ELSE {acc.D}) :
           /\ retained_channels' = rc
           /\ X' = acc.X
           /\ D' = Dq
           /\ permanent_ssnr' = PermanentAfter(acc.X, Dq, rc)
           /\ err' = m.err
           /\ warned' = m.warned
           /\ ssnr_collection' =
                  IF m.err = "none"
                  THEN Append(ssnr_collection, Performance(test))
                  ELSE ssnr_collection
    /\ op' = "process_current_split"
    /\ arg' = None
    /\ out' = None
    /\ UNCHANGED <<configVars, optVars, ssnr_is_permanent, phase, channel_names,
                   batchVars, sparseVars, adaptiveVars>>

\* ------------------------------------------------------ adaptive learner
\* the attributes AXDAWNNode._train works on, and the exception raised so far
AdaptiveState ==
    [ai |-> ai, R1 |-> R1, R2 |-> R2, R2inv |-> R2inv, wi |-> wi,
     filters |-> filters, num_signals |-> num_signals,
     num_noise |-> num_noise, err |-> "none"]

\* AXDAWNNode.initialize_filters: self.ai is assigned first; numpy.zeros with
\* a None dimension raises TypeError before R1 is assigned.
InitializeFilters(st, data, rc) ==
    IF st.ai # None THEN st
    ELSE IF rc = NoneInt
    THEN [st EXCEPT !.ai = RZeros(Rows(data), Cols(data)),
                    !.err = "TypeError"]
    ELSE [st EXCEPT
            !.ai = RZeros(Rows(data), Cols(data)),
            !.R1 = Some([stages |-> rc,
                         stage0 |-> RZeros(Cols(data), Cols(data)),
                         src |-> "zeros"]),
            !.R2 = RZeros(Cols(data), Cols(data)),
            !.wi = Some([rows |-> Cols(data), cols |-> rc, src |-> "random"]),
            !.R2inv = REye(Cols(data), delta),
            !.filters = Some([rows |-> Cols(data), cols |-> rc,
                              src |-> "random"])]

\* a signal update that counts the sample and leaves the estimate alone
UpdateSignalKeepsEstimate(st, x, pls) == [st EXCEPT !.num_signals = @ + 1]

\* "update signal estimation": num_signals, ai and R1[0], in this order
UpdateSignal(st, x, pls) ==
    LET n1 == st.num_signals + 1
        st1 == [st EXCEPT !.num_signals = n1]
    IN  IF BroadcastFails(x, st.ai) THEN [st1 EXCEPT !.err = "ValueError"]
        ELSE LET a == RPlus(RScale(pls, st.ai),
                            RScale(<<1, n1>>, RMinus(x, st.ai)))
                 aTa == RDot(Transpose(a), a)
                 st2 == [st1 EXCEPT !.ai = a]
             IN  IF st.R1 = None THEN [st2 EXCEPT !.err = "TypeError"]
                 ELSE LET n == Rows(st.R1[1].stage0) IN
                      IF Cols(aTa) # n /\ Cols(aTa) # 1
                      THEN [st2 EXCEPT !.err = "ValueError"]
                      ELSE [st2 EXCEPT !.R1 =
                               Some([st.R1[1] EXCEPT
                                        !.stage0 = Stretch(aTa, n, n)])]

\* a loop body that would only rescale Ri and leave the rank-one term out
RescaleOnly(Ri, u, pln) == RScale(RDiv(ROne, pln), Ri)

\* one pass of the loop body of adapt_inverse_noise_correlation on Ri
ShermanMorrison(Ri, u, pln) ==
    LET inv == RDiv(ROne, pln)
        Riu == RDot(Ri, u)
        vtRi == RDot(Transpose(u), Ri)
        denom == RAdd(ROne, RMul(inv, RDot(Transpose(u), Riu)[1][1]))
    IN  RMinus(RScale(inv, Ri),
               RScale(RDiv(RMul(inv, inv), denom), RDot(Riu, vtRi)))

\* the loop of adapt_inverse_noise_correlation from row i on: self.R2 is
\* assigned in every pass, Ri is local
RECURSIVE AdaptRows(_, _, _, _, _)
AdaptRows(r2, Ri, x, pln, i) ==
    IF i > Rows(x) THEN [R2 |-> r2, Ri |-> Ri, err |-> "none"]
    ELSE IF r2 = None THEN [R2 |-> r2, Ri |-> Ri, err |-> "TypeError"]
    ELSE LET u == Transpose(<<x[i]>>)
             uuT == RDot(u, Transpose(u))
         IN  IF BroadcastFails(r2, uuT)
             THEN [R2 |-> r2, Ri |-> Ri, err |-> "ValueError"]
             ELSE LET r2n == RPlus(RScale(pln, r2), uuT) IN
                  IF DotFails(Ri, u)
                  THEN [R2 |-> r2n, Ri |-> Ri, err |-> "ValueError"]
                  ELSE AdaptRows(r2n, ShermanMorrison(Ri, u, pln), x, pln,
                                 i + 1)

\* AXDAWNNode.adapt_inverse_noise_correlation: self.R2inv is assigned after
\* the loop only
AdaptInverseNoiseCorrelation(st, x, pln) ==
    LET r == AdaptRows(st.R2, st.R2inv, x, pln, 1) IN
    [st EXCEPT !.R2 = r.R2,
               !.R2inv = IF r.err = "none" THEN r.Ri ELSE st.R2inv,
               !.err = r.err]

\* Whether scipy.linalg.eigh(R1[0], R2) raises LinAlgError: R2 must be
\* positive definite.  R2 is positive semidefinite; a zero on its diagonal
\* makes the factorisation fail, for any other singular R2 rounding decides.
EighOutcomes(r2) ==
    IF RDet(r2) # RZero THEN {FALSE}
    ELSE IF \E k \in 1..Rows(r2) : r2[k][k] = RZero THEN {TRUE}
    ELSE {TRUE, FALSE}

\* the entry of the generalized eigenvector with the k-th largest eigenvalue
\* at channel e
EigenvectorEntry(e, k) == [channel |-> e, rank |-> k]

\* `V = V[:, I[::-1]]`: eigh returns the eigenvectors as the columns of V,
\* I[::-1] puts them in descending order of eigenvalue
SortedEigenvectors(n) ==
    Mat(n, n, [e \in 1..n, k \in 1..n |-> EigenvectorEntry(e, k)])

\* `weights[:, i] = ... * self.wi[:, self.retained_channels-i-1]` for i in
\* range(self.wi.shape[1]): the index each column of the filter bank is read
\* at, columns counted from 1 here and stages from 0 as in the code.  A
\* negative index does not raise: numpy counts it from the last column.
StageOfColumn(cols, rc) == [i \in 1..cols |-> rc - (i - 1) - 1]

\* the recomputation of the filters at the end of AXDAWNNode._train
RecomputeFilters(st, rc, ct, eighFails) ==
    LET n == Rows(st.R1[1].stage0) IN
    IF Cols(st.R2) # n THEN [st EXCEPT !.err = "ValueError"]
    ELSE IF ct = "eig"
    THEN IF eighFails THEN [st EXCEPT !.err = "LinAlgError"]
         ELSE [st EXCEPT !.filters =
                  Some([rows |-> n, cols |-> n, src |-> "eig",
                        entries |-> Transpose(SortedEigenvectors(n))])]
    ELSE IF ct = "rls"
    THEN [st EXCEPT
            !.R1 = Some([st.R1[1] EXCEPT
                           !.src = IF rc > 1 THEN "rls" ELSE @]),
            !.wi = Some([st.wi[1] EXCEPT !.src = "rls"]),
            !.filters = Some([rows |-> st.wi[1].rows, cols |-> st.wi[1].cols,
                              src |-> "rls",
                              stage |-> StageOfColumn(st.wi[1].cols, rc)])]
    ELSE st

\* AXDAWNNode._train up to the filter recomputation
TrainStatistics(st, s, rc, pls, pln) ==
    LET st1 == InitializeFilters(st, s.data, rc)
        x == ToReal(s.data)
        st2 == IF st1.err # "none" THEN st1
               ELSE IF s.label = erp_class_label
               THEN UpdateSignal(st1, x, pls)
               ELSE [st1 EXCEPT !.num_noise = @ + 1]
    IN  IF st2.err # "none" THEN st2
        ELSE AdaptInverseNoiseCorrelation(st2, x, pln)

\* AXDAWNNode._train, also reached through _inc_train
AXDAWNNode_train(s) ==
    /\ cls = "axDAWN"
    /\ num_train_items < MaxTrainItems
    /\ num_train_items' = num_train_items + 1
    /\ \E st3 \in {TrainStatistics(AdaptiveState, s, retained_channels,
                                    predict_lambda_signal,
                                    predict_lambda_noise)} :
       \E eighFails \in
            (IF /\ st3.err = "none"
                /\ st3.num_signals # 0
                /\ comp_type = "eig"
                /\ Cols(st3.R2) = Rows(st3.R1[1].stage0)
             THEN EighOutcomes(st3.R2) ELSE {FALSE}) :
       \E st4 \in {IF st3.err = "none" /\ st3.num_signals # 0
                   THEN RecomputeFilters(st3, retained_channels, comp_type,
                                         eighFails)
                   ELSE st3} :
          /\ ai' = st4.ai
          /\ R1' = st4.R1
          /\ R2' = st4.R2
          /\ R2inv' = st4.R2inv
          /\ wi' = st4.wi
          /\ filters' = st4.filters
          /\ num_signals' = st4.num_signals
          /\ num_noise' = st4.num_noise
          /\ err' = st4.err
    /\ op' = "_train"
    /\ arg' = Some(s)
    /\ out' = None
    /\ warned' = "none"
    /\ UNCHANGED <<configVars, sinkVars, optVars, phase, retained_channels, channel_names, X, D,
                   xDAWN_channel_names, stored, sparseVars,
                   predict_lambda_signal, predict_lambda_noise>>

\* a stop_training that would leave the applied factors at 1
StopTrainingKeepsFactors ==
    /\ cls = "axDAWN"
    /\ phase' = "trained"
    /\ op' = "_stop_training"
    /\ arg' = None
    /\ err' = "none"
    /\ out' = None
    /\ warned' = "none"
    /\ UNCHANGED <<configVars, sinkVars, optVars, retained_channels,
                   channel_names, X, D, batchVars, sparseVars, adaptiveVars>>

\* AXDAWNNode._stop_training
AXDAWNNode_stop_training ==
    /\ cls = "axDAWN"
    /\ predict_lambda_signal' = lambda_signal
    /\ predict_lambda_noise' = lambda_noise
    /\ phase' = "trained"
    /\ op' = "_stop_training"
    /\ arg' = None
    /\ err' = "none"
    /\ out' = None
    /\ warned' = "none"
    /\ UNCHANGED <<configVars, sinkVars, optVars, retained_channels, channel_names, X, D,
                   batchVars, sparseVars, R1, R2, R2inv, num_signals,
                   num_noise, num_train_items>>

\* AXDAWNNode._execute
AXDAWNNode_execute(s) ==
    /\ cls = "axDAWN"
    /\ \E st1 \in {InitializeFilters(AdaptiveState, s.data,
                                     retained_channels)} :
       LET cn == IF channel_names = None THEN s.channel_names
                 ELSE channel_names
           rc1 == DefaultRetained(retained_channels, cn)
           rc2 == ClampRetained(rc1, cn)
           e == IF st1.err # "none" THEN st1.err
                ELSE IF st1.filters = None THEN "TypeError"
                ELSE IF ProjectionFails(s.data, st1.filters[1])
                THEN "ValueError"
                ELSE "none"
           names == IF xDAWN_channel_names = None THEN XDAWNNames(rc2)
                    ELSE xDAWN_channel_names
       IN  /\ ai' = st1.ai
           /\ R1' = st1.R1
           /\ R2' = st1.R2
           /\ R2inv' = st1.R2inv
           /\ wi' = st1.wi
           /\ filters' = st1.filters
           /\ err' = e
           /\ IF st1.err # "none"
              THEN UNCHANGED <<channel_names, retained_channels>>
              ELSE /\ channel_names' = cn
                   /\ retained_channels' = rc2
           /\ warned' = IF st1.err = "none" /\ TooManyRetained(rc1, cn)
                        THEN "clamp" ELSE "none"
           /\ IF e = "none"
              THEN /\ xDAWN_channel_names' = names
                   /\ out' = Some([rows |-> Rows(s.data),
                                   cols |-> LeadingColumns(st1.filters[1], rc2),
                                   channel_names |-> names])
              ELSE /\ UNCHANGED xDAWN_channel_names
                   /\ out' = None
    /\ op' = "_execute"
    /\ arg' = Some(s)
    /\ UNCHANGED <<configVars, sinkVars, optVars, phase, X, D, stored, sparseVars,
                   predict_lambda_signal, predict_lambda_noise, num_signals,
                   num_noise, num_train_items>>

Next ==
    \/ \E s \in Samples : XDAWNNode_train(s)
    \/ XDAWNNode_stop_training
    \/ \E s \in Probes : XDAWNNode_execute(s)
    \/ XDAWNNode_store_state
    \/ \E rc \in {NoneInt} \cup (1..MaxRetained) : XDAWNNode_init_load(rc)
    \/ SparseXDAWNNode_stop_training
    \/ \E s \in Probes : SparseXDAWNNode_execute(s)
    \/ SparseXDAWNNode_get_filters
    \/ \E s \in Samples : AXDAWNNode_train(s)
    \/ AXDAWNNode_stop_training
    \/ \E s \in Probes : AXDAWNNode_execute(s)
    \/ \E s \in Samples : SSNR_add_example(s)
    \/ SSNR_ssnr_as
    \/ \E sel \in {None} \cup ElectrodeSelections(MaxChannels) : SSNR_ssnr_vs(sel)
    \/ \E t \in TestAccumulations, sel \in {None} \cup ElectrodeSelections(MaxChannels) :
           SSNR_ssnr_vs_test(t, sel)
    \/ \E s \in Samples : SSNRSinkNode_train(s)
    \/ SSNRSinkNode_reset
    \/ \E feed \in SplitFeeds, test \in SplitTests :
           SSNRSinkNode_process_current_split(feed, test)

Spec == Init /\ [][Next]_vars

\* ================================================================ properties
\* C1: after every call that adds an example to the batch/sparse learner or
\* to the SSNR accumulator, the data matrix X and the indicator matrix D have
\* the same number of rows.
C1_RowAlignment ==
    (cls \in {"xDAWN", "Sparse_xDAWN", "SSNR"} /\ X # None /\ D # None)
        => Rows(X) = Rows(D)

\* C2, as the specification states it: the filter bank a batch learner has
\* produced has exactly min(retainedChannels, channelCount) columns.
C2_FilterBankShape ==
    (cls = "xDAWN" /\ trainable /\ filters # None /\ channel_names # None)
        => filters[1].cols =
               Min(DefaultRetained(retained_channels, channel_names),
                   Len(channel_names))

\* C2, as the code has it: the filter bank a batch learner produces, and the
\* one store_state persists, has one column per channel (channelCount
\* columns); it is the projection that applies exactly
\* min(retainedChannels, channelCount) leading columns of it.
C2_FilterBankShapeAmended ==
    cls = "xDAWN" =>
        /\ (filters # None /\ trainable) =>
               /\ filters[1].rows = Len(channel_names)
               /\ filters[1].cols = Len(channel_names)
        /\ (trainable /\ stored # None /\ stored[1].complete) =>
               stored[1].filters[1].cols = Len(channel_names)
        /\ (op = "_execute" /\ err = "none") =>
               /\ out[1].cols = Min(retained_channels, Len(channel_names))
               /\ Len(out[1].channel_names) = out[1].cols

\* a batch learner asked for one channel, trained on two, has a bank of two
\* columns and projects onto one
C2_Witness ==
    /\ cls = "xDAWN"
    /\ op = "_execute"
    /\ err = "none"
    /\ filters[1].cols = 2
    /\ retained_channels = 1
    /\ out[1].cols = 1

\* C3: in every learner and in the SSNR accumulator, after every training
\* call the retained-channel count does not exceed the channel count of the
\* samples (a larger requested count has been clamped).
C3_RetainedClamped ==
    (op \in {"_train", "add_example"} /\ retained_channels # NoneInt)
        => retained_channels <=
               (IF cls \in {"xDAWN", "Sparse_xDAWN"} THEN Len(channel_names)
                ELSE Cols(arg[1].data))

\* C4: with retained_channels left at None, the first training call of a
\* batch, sparse or adaptive learner succeeds and sets the retained-channel
\* count to the channel count of the sample.
C4_NoneMeansAllChannels ==
    [][(/\ op' = "_train"
        /\ retained_channels = NoneInt
        /\ IF cls = "axDAWN" THEN num_train_items = 0
           ELSE channel_names = None)
           => (/\ err' = "none"
               /\ retained_channels' = Cols(arg'[1].data))]_vars

\* C5: after the sparse learner's finalisation the number of selected
\* electrode indices (the non-zero entries of the pruned vector) is exactly
\* num_selected_electrodes, for every vector the optimisation may return and
\* every count between 0 and the channel count.
C5_SparsePruningCount ==
    (/\ cls = "Sparse_xDAWN"
     /\ selected_indices # None
     /\ 0 <= num_selected_electrodes
     /\ num_selected_electrodes <= Len(channel_names))
        => Len(selected_indices[1]) = num_selected_electrodes

\* C6: a training call whose sample has another channel count than the one
\* fixed by the first call raises an exception, in the batch/sparse learner
\* (channel_names, X), the SSNR accumulator (X) and the adaptive learner
\* (the correlation state made by initialize_filters).
C6_TrainingChannelMismatchFails ==
    [][(/\ op' \in {"_train", "add_example"}
        /\ \/ /\ cls \in {"xDAWN", "Sparse_xDAWN"}
              /\ channel_names # None
              /\ Cols(arg'[1].data) # Len(channel_names)
           \/ /\ cls = "SSNR"
              /\ X # None
              /\ Cols(arg'[1].data) # Cols(X)
           \/ /\ cls = "axDAWN"
              /\ ai # None
              /\ Cols(arg'[1].data) #
                     (IF R2inv # None THEN Rows(R2inv) ELSE Cols(ai)))
           => err' # "none"]_vars

\* an adaptive learner initialised on one channel count has refused a
\* training sample of another one
C6_Witness ==
    /\ cls = "axDAWN"
    /\ op = "_train"
    /\ R2inv # None
    /\ num_train_items = 2
    /\ Cols(arg[1].data) # Rows(R2inv)
    /\ err = "ValueError"

C8_SingularFinalizeFails ==
    [][(/\ cls = "xDAWN"
        /\ op' = "_stop_training"
        /\ X # None
        /\ (HasZeroColumn(X) \/ HasZeroColumn(D)))
           => (/\ err' = "LinAlgError"
               /\ filters' = None
               /\ phase' = "training"
               /\ X' = X
               /\ D' = D)]_vars

\* C9: an SSNR computation on an accumulation without any target example
\* warns about the missing ERP data and still returns a value.
C9_NoTargetWarnsAndReturns ==
    (/\ cls = "SSNR"
     /\ op \in {"ssnr_as", "ssnr_vs"}
     /\ X # None
     /\ ~Contains1(D))
        => (warned = "noERP" /\ err = "none" /\ out # None)

\* C10: get_filters of the sparse learner raises NotImplementedError and
\* returns nothing, whatever the state of the learner.
C10_GetFiltersUnsupported ==
    op = "get_filters" => (err = "NotImplementedError" /\ out = None)

\* get_filters was refused after a finalisation that selected electrodes
C10_Witness ==
    /\ cls = "Sparse_xDAWN"
    /\ op = "get_filters"
    /\ phase = "trained"
    /\ selected_indices # None
    /\ err = "NotImplementedError"

C12_PersistenceRoundTrip ==
    (cls = "xDAWN" /\ ~trainable /\ stored[1].complete) =>
        /\ filters = stored[1].filters
        /\ (/\ op = "_execute"
            /\ Cols(arg[1].data) = stored[1].filters[1].rows)
               => (err = "none" /\ out # None)

\* C13: a projection call on the batch learner has no side effects: it
\* leaves the filter bank, the channel names, the retained-channel count and
\* the output channel names as they were, on every call, the first call on
\* a trained learner and on a loaded learner included.
C13_ProjectionHasNoSideEffects ==
    [][(cls = "xDAWN" /\ op' = "_execute")
           => UNCHANGED <<filters, wi, ai, channel_names, retained_channels,
                          xDAWN_channel_names>>]_vars

\* C14, as the specification states it: with no forgetting, after a training
\* call of the adaptive learner the recursively maintained R2inv is the
\* inverse of the accumulated noise autocorrelation R2 (R2inv R2 = I).
C14_ShermanMorrison ==
    (/\ cls = "axDAWN"
     /\ op = "_train"
     /\ err = "none"
     /\ predict_lambda_noise = ROne)
        => RDot(R2inv, R2) = REye(Rows(R2inv), ROne)

\* r2inv is the inverse of r2 + I / delta, the noise autocorrelation
\* regularised by the initial value delta * I of its inverse
InverseOfRegularised(r2, r2inv) ==
    /\ r2 # None
    /\ r2inv # None
    /\ Rows(r2) = Rows(r2inv)
    /\ Cols(r2) = Cols(r2inv)
    /\ RDot(r2inv, RPlus(r2, REye(Rows(r2), RDiv(ROne, delta))))
           = REye(Rows(r2), ROne)

\* C14, as the code has it: with no forgetting, every training call of the
\* adaptive learner that returns keeps R2inv equal to the inverse of
\* R2 + I / delta (R2inv (R2 + I / delta) = I), from R2 = 0 and
\* R2inv = delta I on; R2inv is not the inverse of R2 itself.
C14_ShermanMorrisonAmended ==
    [][(/\ cls = "axDAWN"
        /\ op' = "_train"
        /\ err' = "none"
        /\ predict_lambda_noise = ROne
        /\ (R2inv = None \/ InverseOfRegularised(R2, R2inv)))
           => InverseOfRegularised(R2', R2inv')]_vars

\* two samples have been fed without forgetting, the noise autocorrelation is
\* not zero and R2inv is the inverse of its regularisation
C14_Witness ==
    /\ cls = "axDAWN"
    /\ op = "_train"
    /\ err = "none"
    /\ num_train_items = 2
    /\ predict_lambda_noise = ROne
    /\ Rows(R2) = 2
    /\ R2[1][1] # RZero
    /\ R2[2][2] # RZero
    /\ InverseOfRegularised(R2, R2inv)

\* C15: the adaptive learner can be queried and fed after any prefix of the
\* training feed, the empty one included: a projection call and a further
\* training call with a sample of the learner's shape succeed.
C15_AdaptiveAlwaysReady ==
    [][(/\ cls = "axDAWN"
        /\ op' \in {"_execute", "_train"}
        /\ \/ ai = None
           \/ /\ Rows(arg'[1].data) = Rows(ai)
              /\ Cols(arg'[1].data) = Cols(ai))
           => err' = "none"]_vars

\* C16: SSNRSinkNode.reset puts the node back into the clean state it had
\* after its initialization: the SSNR accumulation holds no row of an earlier
\* split (X and D are empty); the result collection is kept as it is.
C16_ResetClearsAccumulation ==
    (cls = "SSNRSinkNode" /\ op = "reset") => (X = None /\ D = None)

\* C17: the optimisation of the sparse learner always terminates, whatever
\* the sequence of objective values: once _gradient_optimization is entered
\* it returns.
C17_OptimizationTerminates ==
    (opt_pc = "restart") ~> (opt_pc = "done")

\* C18: the indicator matrix D is block-structured per example: every example
\* that is added contributes, below the rows of the examples added before it,
\* an identity block when its label is the target ERP label and a zero block
\* of the same shape otherwise; a call that fails leaves D as it was.
ExpectedBlock(T, label) ==
    [r \in 1..T |-> [c \in 1..T |->
        IF label = erp_class_label /\ r = c THEN 1 ELSE 0]]

C18_IndicatorBlocks ==
    [][(/\ cls \in {"xDAWN", "Sparse_xDAWN", "SSNR", "SSNRSinkNode"}
        /\ op' \in {"_train", "add_example"})
           => IF err' = "none"
              THEN D' = D \o ExpectedBlock(Rows(arg'[1].data), arg'[1].label)
              ELSE D' = D]_vars

C18_Witness ==
    /\ cls = "xDAWN"
    /\ op = "_train"
    /\ err = "none"
    /\ arg[1].label # erp_class_label
    /\ D = <<<<1, 0>>, <<0, 1>>, <<0, 0>>, <<0, 0>>>>

\* C19: every training sample of the adaptive learner, target or not, adds
\* the outer product of each of its time rows to the noise autocorrelation
\* R2: with no forgetting, R2 after the call is R2 before it (zero before the
\* first sample) plus the sum of the outer products of the rows of the sample.
SumOfOuterProducts(data) == RDot(Transpose(ToReal(data)), ToReal(data))

C19_NoiseRankOneUpdates ==
    [][(/\ cls = "axDAWN"
        /\ op' = "_train"
        /\ predict_lambda_noise = ROne
        /\ R2 = None \/ Rows(R2) = Cols(arg'[1].data))
           => /\ R2' # None
              /\ R2' = RPlus(IF R2 = None
                             THEN RZeros(Cols(arg'[1].data), Cols(arg'[1].data))
                             ELSE R2,
                             SumOfOuterProducts(arg'[1].data))]_vars

\* C20: a training call of the adaptive learner recomputes the filter bank
\* if and only if a target sample has been seen up to and including that
\* call: before the first target sample the filter bank and the stage
\* weights keep their initial values, from the first target sample on every
\* training call leaves a recomputed filter bank.
Recomputed(f) == f # None /\ f[1].src \in {"rls", "eig"}

C20_RecomputeIffTargetSeen ==
    [][(cls = "axDAWN" /\ op' = "_train")
           => IF num_signals > 0 \/ arg'[1].label = erp_class_label
              THEN Recomputed(filters')
              ELSE /\ ~Recomputed(filters')
                   /\ filters # None => (filters' = filters /\ wi' = wi)]_vars

\* C21: the correlation state of the adaptive learner (mean-ERP estimate, R1
\* stages, R2, R2inv, stage weights) is created by the first sample, in a
\* training or a projection call, and is never initialized again: a
\* projection call and stop_training leave it as it is, and a training call
\* adds to the R2 it found.
CorrelationStateCreated ==
    ai # None /\ R1 # None /\ R2 # None /\ R2inv # None /\ wi # None

C21_CorrelationStateCreatedOnce ==
    [][(cls = "axDAWN" /\ op' \in {"_train", "_execute", "_stop_training"})
           => /\ op' \in {"_train", "_execute"} => CorrelationStateCreated'
              /\ CorrelationStateCreated =>
                     /\ CorrelationStateCreated'
                     /\ op' # "_train" => UNCHANGED <<ai, R1, R2, R2inv, wi>>
                     /\ (/\ op' = "_train"
                         /\ err' = "none"
                         /\ predict_lambda_noise = ROne
                         /\ Rows(R2) = Cols(arg'[1].data))
                            => R2' = RPlus(R2, SumOfOuterProducts(arg'[1].data))]_vars

\* C22, as the specification states it: a target sample x updates the
\* mean-ERP estimate as a <- lambda_signal * a + (x - a) / n_signal with the
\* configured signal forgetting factor lambda_signal.
MeanErpBefore(data) ==
    IF ai = None THEN RZeros(Rows(data), Cols(data)) ELSE ai

MeanErpUpdate(factor, a, x, n) ==
    RPlus(RScale(factor, a), RScale(<<1, n>>, RMinus(x, a)))

C22_MeanErpUpdate ==
    [][(/\ cls = "axDAWN"
        /\ op' = "_train"
        /\ err' = "none"
        /\ arg'[1].label = erp_class_label)
           => ai' = MeanErpUpdate(lambda_signal, MeanErpBefore(arg'[1].data),
                                  ToReal(arg'[1].data), num_signals')]_vars

\* C22, amended: in a training call that returns, a target sample x is
\* counted in n_signal and updates the estimate as
\* a <- predict_lambda_signal * a + (x - a) / n_signal, where
\* predict_lambda_signal is 1 until stop_training has copied the configured
\* factor into it, and R1[0] becomes a^T a; a sample of another label leaves
\* a, n_signal and R1[0] as they are.  With the factor 1 the update is the
\* step of the arithmetic mean: n_signal * a' = (n_signal - 1) * a + x.
C22_MeanErpUpdateAmended ==
    [][(cls = "axDAWN" /\ op' = "_train" /\ err' = "none")
           => LET a == MeanErpBefore(arg'[1].data)
                  x == ToReal(arg'[1].data)
              IN  IF arg'[1].label = erp_class_label
                  THEN /\ num_signals' = num_signals + 1
                       /\ ai' = MeanErpUpdate(predict_lambda_signal, a, x,
                                              num_signals')
                       /\ R1'[1].stage0 = RDot(Transpose(ai'), ai')
                       /\ predict_lambda_signal = ROne =>
                              RScale(<<num_signals', 1>>, ai') =
                                  RPlus(RScale(<<num_signals, 1>>, a), x)
                  ELSE /\ num_signals' = num_signals
                       /\ ai' = a
                       /\ R1 # None => R1'[1].stage0 = R1[1].stage0]_vars

C22_Witness ==
    /\ cls = "axDAWN"
    /\ op = "_train"
    /\ err = "none"
    /\ arg[1].label = erp_class_label
    /\ num_signals = 2
    /\ lambda_signal # ROne
    /\ predict_lambda_signal = ROne
    /\ ai # RZeros(Rows(ai), Cols(ai))

\* C23: in the recursive mode of the adaptive learner the filter bank is
\* emitted in reverse stage order: after a training call that recomputed it,
\* and whatever projection calls came before, column i (counted from 0) is
\* read from stage retained_channels - 1 - i, which is the index of a stage:
\* 0 <= index < number of stages.
C23_ReverseStageOrder ==
    (/\ cls = "axDAWN"
     /\ op = "_train"
     /\ err = "none"
     /\ filters # None
     /\ filters[1].src = "rls")
        => \A i \in 1..filters[1].cols :
               /\ filters[1].stage[i] = retained_channels - 1 - (i - 1)
               /\ 0 <= filters[1].stage[i]
               /\ filters[1].stage[i] < wi[1].cols

C25_ReturnsBestOfAllRuns ==
    /\ best_v_1 # None => best_v_1[1] = best_f_value
    /\ opt_pc = "done" =>
           /\ best_v_1 # None
           /\ \A f \in run_finals : FloatGE(best_v_1[1], f)

\* C26: projection on the sparse learner mixes no channels: the output holds
\* exactly the columns of the sample at the selected electrode indices, in
\* increasing index order, under the names of the selected channels, and has
\* as many channels as electrodes are selected.
C26_SparseProjectionSelects ==
    (cls = "Sparse_xDAWN" /\ op = "_execute" /\ err = "none")
        => LET idx == selected_indices[1]
               o == out[1]
           IN  /\ o.cols = Len(idx)
               /\ Rows(o.data) = Rows(arg[1].data)
               /\ Len(o.channel_names) = Len(idx)
               /\ \A j \in 1..Len(idx) :
                      /\ j > 1 => idx[j - 1] < idx[j]
                      /\ o.channel_names[j] = channel_names[idx[j] + 1]
                      /\ \A r \in 1..Rows(o.data) :
                             /\ Len(o.data[r]) = Len(idx)
                             /\ o.data[r][j] = arg[1].data[r][idx[j] + 1]

C26_Witness ==
    /\ cls = "Sparse_xDAWN"
    /\ op = "_execute"
    /\ err = "none"
    /\ selected_indices = Some(<<1>>)
    /\ arg[1].data = <<<<0, 1>>, <<1, 0>>>>
    /\ out[1].data = <<<<1>>, <<0>>>>

\* C27: in ssnr_vs and ssnr_vs_test, for every electrode subset, the filter
\* expanded to the full channel space has one row per channel and
\* retained_channels columns; the row of an electrode that is not selected
\* is zero; the row of the electrode at position p of the subset carries row p
\* of the filter learned on the subset, with zeros beyond the columns that
\* filter has.
SelectionOfCall ==
    IF arg[1].selected_electrodes = None
    THEN [p \in 1..Cols(X) |-> p - 1]
    ELSE arg[1].selected_electrodes

C27_ExpandedFilter ==
    (op \in {"ssnr_vs", "ssnr_vs_test"} /\ err = "none")
       => LET v == out[1].filters
              sel == SelectionOfCall
          IN  /\ Rows(v) = Cols(X)
              /\ \A e \in 1..Rows(v) :
                     /\ Len(v[e]) = retained_channels
                     /\ (\A p \in 1..Len(sel) : sel[p] # e - 1)
                            => \A j \in 1..Len(v[e]) : v[e][j] = ZeroWeight
                     /\ \A p \in 1..Len(sel) : sel[p] = e - 1 =>
                            \A j \in 1..Len(v[e]) :
                                v[e][j] = IF j <= Len(sel)
                                          THEN [row |-> p, col |-> j]
                                          ELSE ZeroWeight

C27_Witness ==
    /\ cls = "SSNR"
    /\ op = "ssnr_vs"
    /\ err = "none"
    /\ arg[1].selected_electrodes = <<1>>
    /\ Cols(X) = 2
    /\ retained_channels = 2
    /\ out[1].filters = <<<<ZeroWeight, ZeroWeight>>,
                          <<[row |-> 1, col |-> 1], ZeroWeight>>>>

\* C28: ssnr_vs_test learns the filter from the accumulator's own X and D,
\* evaluates on the test accumulation it is given, and leaves the training
\* accumulation X and D as they were before the call.
C28_TestMetricKeepsTraining ==
    [][op' = "ssnr_vs_test" => (X' = X /\ D' = D)]_vars

\* C29: a training call on the batch/sparse learner or on the SSNR
\* accumulator that fails leaves the accumulated training set as it was: X
\* and D are those of before the call, and they have equal row counts.
C29_FailedTrainingKeepsAccumulation ==
    [][(/\ cls \in {"xDAWN", "Sparse_xDAWN", "SSNR"}
        /\ op' \in {"_train", "add_example"}
        /\ err' # "none")
           => /\ X' = X
              /\ D' = D
              /\ (X' # None /\ D' # None) => Rows(X') = Rows(D')]_vars

\* C30: in the adaptive learner the configured forgetting factors take
\* effect only after stop_training: a training call before the first
\* stop_training applies the factor 1 to the mean-ERP estimate and to the
\* noise autocorrelation whatever was configured, a training call after it
\* applies lambda_signal and lambda_noise, and stop_training changes neither
\* the correlation state nor the counters nor the filter bank.
AppliedFactors ==
    IF phase = "training"
    THEN [signal |-> ROne, noise |-> ROne]
    ELSE [signal |-> lambda_signal, noise |-> lambda_noise]

C30_FactorsAfterStopTraining ==
    [][cls = "axDAWN" =>
        /\ (op' = "_train" /\ err' = "none") =>
              /\ arg'[1].label = erp_class_label =>
                     ai' = MeanErpUpdate(AppliedFactors.signal,
                                         MeanErpBefore(arg'[1].data),
                                         ToReal(arg'[1].data), num_signals')
              /\ (Rows(arg'[1].data) = 1 /\ R2 # None) =>
                     R2' = RPlus(RScale(AppliedFactors.noise, R2),
                                 SumOfOuterProducts(arg'[1].data))
        /\ op' = "_stop_training" =>
              /\ phase' = "trained"
              /\ UNCHANGED <<ai, R1, R2, R2inv, wi, filters, num_signals,
                             num_noise, num_train_items>>]_vars

\* a target sample has been learned after stop_training, with configured
\* factors that are not 1
C30_Witness ==
    /\ cls = "axDAWN"
    /\ phase = "trained"
    /\ op = "_train"
    /\ err = "none"
    /\ lambda_signal # ROne
    /\ lambda_noise # ROne
    /\ num_signals = 2
    /\ arg[1].label = erp_class_label
    /\ Rows(arg[1].data) = 1

====
